---- MODULE Spec2Model ----
(***************************************************************************)
(* SmartMeter-Vision: the readings service, the settings service and the   *)
(* monthly upload gate, as a state machine over the Firestore collections  *)
(* `readings`, `settings` and `flats`.                                     *)
(*                                                                         *)
(* Numbers.  Meter readings and units are integers.  The tariff and the    *)
(* unit factor are held in tenths (2.3 is 23, 7.5 is 75), the minimum      *)
(* price in whole currency units and an amount in hundredths, so that      *)
(*   amount = unitsUsed * unitFactor * tariffPerUnit + minimumPrice        *)
(* is exact: 50 * 23 * 75 + 250 * 100 = 111250, i.e. 1112.50.              *)
(*                                                                         *)
(* A JavaScript value that may be a number, null or undefined is a record  *)
(* [k, v]: Num(v), Null or Undefined.                                      *)
(***************************************************************************)
EXTENDS Integers, Sequences, FiniteSets, TLC

VARIABLES
    readings,   \* the `readings` collection: a sequence, the index is the document id
    settings,   \* the document settings/globalTariff
    flats,      \* the `flats` collection, by flatId
    now,        \* Date.now()
    last,       \* the last call: its name, arguments, what it read and how it ended
    steps,      \* the number of steps taken so far (calls and ticks of the clock)
    inflight,   \* per client (an admin, a tenant's session), the call they have under way
    migration,  \* the export and import scripts: their databases, the backup, their position
    page,       \* the state of the React component on screen
    users       \* the `users` collection, by user id

vars == <<readings, settings, flats, now, last, steps, inflight, migration, page, users>>

----------------------------------------------------------------------------
(* Bounds of the model *)

\* The length of a run of Spec, and of SpecOneFlat (calls and ticks).
MaxSteps == 6
MaxStepsOneFlat == 9
MaxStepsSettings == 3
MaxStepsUpdates == 7
\* The clock runs from 1 to MaxTime; a day has TicksPerDay ticks, a month
\* DaysPerMonth days.
MaxTime == 4
TicksPerDay == 2
DaysPerMonth == 2

TicksPerMonth == TicksPerDay * DaysPerMonth

\* The values the calls are made with (tariffs and unit factors in tenths).
FlatIds == {"A-101", "B-202"}
CorrectedValues == {30, 100}
InitialReadings == {40}
TariffValues == {75}
MinimumPriceValues == {300}
UnitFactorValues == {10}
ImageUrls == {"data:image/jpeg"}
Reasons == {"blurry"}
TenantReadings == {35}
EarlierReadings == {10}
LaterTariffValues == {80}
LaterMinimumPriceValues == {25}
LaterUnitFactorValues == {23}
Admins == {"admin1", "admin2"}
Sessions == {"phone", "laptop"}
DocIds == {"id1", "id2", "id3"}
ReadingTexts == {"", "  ", "abc", "35", " 35 "}
UserIds == {"u1", "u2"}
UsernameTexts == {"", "  ", " bob "}
OwnerNameTexts == {"", "Ravi"}
PasswordTexts == {"", "  ", " pw "}
Thrown == {"", "updateUsername", "updateFlat", "updateUserPassword"}

----------------------------------------------------------------------------
(* JavaScript values *)

Num(n) == [k |-> "num", v |-> n]
Null == [k |-> "null", v |-> 0]
Undefined == [k |-> "undefined", v |-> 0]
Str(s) == [k |-> "str", v |-> s]
NullStr == [k |-> "null", v |-> ""]
UndefinedStr == [k |-> "undefined", v |-> ""]

IsNum(x) == x.k = "num"
Nullish(x) == x.k \in {"null", "undefined"}

\* a ?? b
Coalesce(a, b) == IF Nullish(a) THEN b ELSE a

\* a || b on numbers: null, undefined and 0 are falsy
OrElse(a, b) == IF Nullish(a) \/ a.v = 0 THEN b ELSE a

NoStatus == "undefined"

----------------------------------------------------------------------------
(* Time *)

\* new Date(t).toLocaleDateString(): the calendar day of a timestamp
DateOf(t) == t \div TicksPerDay

\* getYearMonth(timestamp): the calendar month of a timestamp
getYearMonth(timestamp) == timestamp \div TicksPerMonth

----------------------------------------------------------------------------
(* The settings service *)

DefaultTariff == 0
DefaultMinimumPrice == 250
\* 2.3, in tenths
DefaultUnitFactor == 23

getGlobalTariff ==
    IF ~settings.exists THEN DefaultTariff
    ELSE IF IsNum(settings.tariffPerUnit) THEN settings.tariffPerUnit.v ELSE DefaultTariff

\* A minimum price that defaults to nothing, as the tariff does.
getMinimumPriceDefaultingToZero ==
    IF ~settings.exists THEN 0
    ELSE IF IsNum(settings.minimumPrice) THEN settings.minimumPrice.v ELSE 0

getMinimumPrice ==
    IF ~settings.exists THEN DefaultMinimumPrice
    ELSE IF IsNum(settings.minimumPrice) THEN settings.minimumPrice.v ELSE DefaultMinimumPrice

getUnitFactor ==
    IF ~settings.exists THEN DefaultUnitFactor
    ELSE IF IsNum(settings.unitFactor) THEN settings.unitFactor.v ELSE DefaultUnitFactor

\* No script is running; no component is on screen.
NoMigration == [pc |-> "off"]
\* No user documents are held where the users service is not part of the run.
NoUsers == <<>>

NoPage == [component |-> ""]

\* What a call leaves in `last` when nothing else is said about it.
NoCall ==
    [op |-> "", id |-> 0, flat |-> "", err |-> "", date |-> Null, corrected |-> 0,
     reason |-> UndefinedStr, before |-> [status |-> ""], value |-> 0]

\* setDoc(ref, {tariffPerUnit}) without the merge: the other fields are gone.
MergeTariffOverwriting(tariffPerUnit) ==
    [exists |-> TRUE, tariffPerUnit |-> Num(tariffPerUnit),
     minimumPrice |-> Undefined, unitFactor |-> Undefined]

\* setDoc(ref, {tariffPerUnit}, {merge: true})
MergeTariff(tariffPerUnit) ==
    [settings EXCEPT !.exists = TRUE, !.tariffPerUnit = Num(tariffPerUnit)]

\* setDoc(ref, {minimumPrice}, {merge: true})
MergeMinimumPrice(minimumPrice) ==
    [settings EXCEPT !.exists = TRUE, !.minimumPrice = Num(minimumPrice)]

\* setDoc(ref, {unitFactor}, {merge: true})
MergeUnitFactor(unitFactor) ==
    [settings EXCEPT !.exists = TRUE, !.unitFactor = Num(unitFactor)]

\* A variant of updateGlobalTariff that re-prices the approved readings at the
\* new tariff.
updateGlobalTariffRetroactive(tariffPerUnit) ==
    /\ settings' = MergeTariff(tariffPerUnit)
    /\ readings' = [i \in DOMAIN readings |->
            IF readings[i].status = "approved"
            THEN [readings[i] EXCEPT
                    !.tariffAtApproval = Num(tariffPerUnit),
                    !.amount = Num(readings[i].unitsUsed.v * readings[i].unitFactorAtApproval.v
                                   * tariffPerUnit + getMinimumPrice * 100)]
            ELSE readings[i]]
    /\ last' = [NoCall EXCEPT !.op = "updateGlobalTariff"]
    /\ UNCHANGED <<flats, now>>

updateGlobalTariff(tariffPerUnit) ==
    /\ settings' = MergeTariff(tariffPerUnit)
    /\ last' = [NoCall EXCEPT !.op = "updateGlobalTariff", !.value = tariffPerUnit]
    /\ UNCHANGED <<readings, flats, now>>

updateMinimumPrice(minimumPrice) ==
    /\ settings' = MergeMinimumPrice(minimumPrice)
    /\ last' = [NoCall EXCEPT !.op = "updateMinimumPrice", !.value = minimumPrice]
    /\ UNCHANGED <<readings, flats, now>>

updateUnitFactor(unitFactor) ==
    /\ settings' = MergeUnitFactor(unitFactor)
    /\ last' = [NoCall EXCEPT !.op = "updateUnitFactor", !.value = unitFactor]
    /\ UNCHANGED <<readings, flats, now>>

----------------------------------------------------------------------------
(* The flats service *)

NoFlat == [exists |-> FALSE, initialReading |-> Undefined]

\* getFlatByFlatId(flatId): the flat's record, or null (exists = FALSE)
getFlatByFlatId(flatId) == flats[flatId]

\* An admin creates the flat, with or without an initial reading.
createFlat(flatId, initialReading) ==
    /\ ~flats[flatId].exists
    /\ flats' = [flats EXCEPT ![flatId] = [exists |-> TRUE, initialReading |-> initialReading]]
    /\ last' = [NoCall EXCEPT !.op = "createFlat", !.flat = flatId]
    /\ UNCHANGED <<readings, settings, now>>

----------------------------------------------------------------------------
(* The readings service: the monthly upload gate *)

\* r.status ?? 'pending'
StatusOrPending(r) == IF r.status = NoStatus THEN "pending" ELSE r.status

\* A bucket taken from the stored yearMonth alone: a reading without one is
\* of no month.
BucketOfStoredMonth(r) ==
    Coalesce(r.yearMonth, Num(0 - 1)).v

\* r.yearMonth ?? getYearMonth(r.createdAt || 0)
BucketOf(r) ==
    Coalesce(r.yearMonth, Num(getYearMonth(OrElse(r.createdAt, Num(0)).v))).v

\* A variant of UploadsThisMonth that lets pending readings through.
UploadsThisMonthApprovedOnly(flatId, yearMonth) ==
    {i \in DOMAIN readings :
        /\ readings[i].flatId = flatId
        /\ BucketOf(readings[i]) = yearMonth
        /\ StatusOrPending(readings[i]) = "approved"}

\* A variant of UploadsThisMonth that counts rejected readings too.
UploadsThisMonthAnyStatus(flatId, yearMonth) ==
    {i \in DOMAIN readings :
        /\ readings[i].flatId = flatId
        /\ BucketOf(readings[i]) = yearMonth}

\* The ids of the flat's readings of the month that are not rejected.
UploadsThisMonth(flatId, yearMonth) ==
    {i \in DOMAIN readings :
        /\ readings[i].flatId = flatId
        /\ BucketOf(readings[i]) = yearMonth
        /\ StatusOrPending(readings[i]) # "rejected"}

\* b.createdAt || 0, the key of the gate's sort
CreatedKey(r) == OrElse(r.createdAt, Num(0)).v

\* uploadsThisMonth.sort(...)[0]: a reading with the greatest key (the sort
\* is stable and the query's order is that of the random document ids, so
\* any of several readings with the same key may come first).
LatestUploads(uploads) ==
    {i \in uploads : \A j \in uploads : CreatedKey(readings[j]) <= CreatedKey(readings[i])}

\* latest.createdAt ? new Date(latest.createdAt).toLocaleDateString() : null
DateStr(latest) ==
    IF Nullish(latest.createdAt) \/ latest.createdAt.v = 0
    THEN Null ELSE Num(DateOf(latest.createdAt.v))

\* The document addDoc writes.
NewReading(flatId, imageUrl, tenantReading, createdAt, yearMonth) ==
    [flatId |-> flatId,
     imageUrl |-> imageUrl,
     ocrReading |-> Null,
     ocrConfidence |-> Null,
     tenantReading |-> Coalesce(tenantReading, Null),
     correctedReading |-> Null,
     previousReading |-> Null,
     unitsUsed |-> Null,
     amount |-> Null,
     status |-> "pending",
     createdAt |-> Num(createdAt),
     yearMonth |-> Num(yearMonth),
     approvedAt |-> Undefined,
     tariffAtApproval |-> Undefined,
     unitFactorAtApproval |-> Undefined,
     rejectionReason |-> UndefinedStr,
     reopenReason |-> UndefinedStr]

createReadingFromImage(flatId, imageUrl, tenantReading) ==
    LET yearMonth == getYearMonth(now)
        uploadsThisMonth == UploadsThisMonth(flatId, yearMonth)
    IN  IF uploadsThisMonth # {}
        THEN /\ \E latest \in LatestUploads(uploadsThisMonth) :
                    last' = [NoCall EXCEPT !.op = "createReadingFromImage",
                                           !.flat = flatId,
                                           !.err = "Upload limit reached",
                                           !.id = latest,
                                           !.date = DateStr(readings[latest])]
             /\ UNCHANGED <<readings, settings, flats, now>>
        ELSE /\ readings' = Append(readings,
                                   NewReading(flatId, imageUrl, tenantReading, now, yearMonth))
             /\ last' = [NoCall EXCEPT !.op = "createReadingFromImage",
                                       !.flat = flatId,
                                       !.id = Len(readings) + 1]
             /\ UNCHANGED <<settings, flats, now>>

----------------------------------------------------------------------------
(* createReadingFromImage as two sessions run it at once: line 77 reads the
   clock, line 81 queries the flat's readings, line 98 inserts. *)

\* A session with no call under way.
NoUpload ==
    [pc |-> "idle", flat |-> "", imageUrl |-> "", tenantReading |-> Undefined,
     createdAt |-> 0, yearMonth |-> 0, err |-> ""]

\* Lines 76-96: the clock, the query and the gate.
createReadingQuery(session, flatId, imageUrl, tenantReading) ==
    /\ inflight[session].pc = "idle"
    /\ LET yearMonth == getYearMonth(now)
           uploadsThisMonth == UploadsThisMonth(flatId, yearMonth)
           call == [NoUpload EXCEPT !.flat = flatId, !.imageUrl = imageUrl,
                                    !.tenantReading = tenantReading,
                                    !.createdAt = now, !.yearMonth = yearMonth]
       IN  IF uploadsThisMonth # {}
           THEN /\ inflight' = [inflight EXCEPT ![session] =
                        [call EXCEPT !.pc = "done", !.err = "Upload limit reached"]]
                /\ \E latest \in LatestUploads(uploadsThisMonth) :
                        last' = [NoCall EXCEPT !.op = "createReadingFromImage: query",
                                               !.flat = flatId,
                                               !.err = "Upload limit reached",
                                               !.id = latest,
                                               !.date = DateStr(readings[latest])]
           ELSE /\ inflight' = [inflight EXCEPT ![session] = [call EXCEPT !.pc = "insert"]]
                /\ last' = [NoCall EXCEPT !.op = "createReadingFromImage: query",
                                          !.flat = flatId]
    /\ UNCHANGED <<readings, settings, flats, now, steps, migration, page, users>>

\* Lines 98-112: addDoc, with the clock and the month read at line 77.
createReadingInsert(session) ==
    /\ inflight[session].pc = "insert"
    /\ LET call == inflight[session]
       IN  /\ readings' = Append(readings,
                   NewReading(call.flat, call.imageUrl, call.tenantReading,
                              call.createdAt, call.yearMonth))
           /\ last' = [NoCall EXCEPT !.op = "createReadingFromImage: insert",
                                     !.flat = call.flat, !.id = Len(readings) + 1]
    /\ inflight' = [inflight EXCEPT ![session].pc = "done"]
    /\ UNCHANGED <<settings, flats, now, steps, migration, page, users>>

----------------------------------------------------------------------------
(* The readings service: approval, rejection, reopening *)

\* The flat's approved readings other than the one being approved.
PrevList(readingId, flatId) ==
    {i \in DOMAIN readings :
        /\ readings[i].flatId = flatId
        /\ readings[i].status = "approved"
        /\ i # readingId}

\* b.approvedAt || b.createdAt || 0, the key of the approval's sort
ApprovalKey(r) == OrElse(OrElse(r.approvedAt, r.createdAt), Num(0)).v

\* A variant of PrevCandidates that sorts in ascending order.
PrevCandidatesOldest(prevList) ==
    IF prevList = {} THEN {0}
    ELSE {i \in prevList :
            \A j \in prevList : ApprovalKey(readings[i]) <= ApprovalKey(readings[j])}

\* prevList.sort(...)[0]: a reading with the greatest key (any of them when
\* several have the same key, as in LatestUploads); 0 stands for undefined,
\* the first element of an empty list.
PrevCandidates(prevList) ==
    IF prevList = {} THEN {0}
    ELSE {i \in prevList :
            \A j \in prevList : ApprovalKey(readings[j]) <= ApprovalKey(readings[i])}

\* prev ? (prev.correctedReading ?? prev.ocrReading ?? null) : null
PreviousOfPrev(prev) ==
    IF prev = 0 THEN Null
    ELSE Coalesce(Coalesce(readings[prev].correctedReading, readings[prev].ocrReading), Null)

\* flat?.initialReading ?? null
InitialReadingOf(flatId) ==
    LET flat == getFlatByFlatId(flatId)
    IN  IF ~flat.exists THEN Null ELSE Coalesce(flat.initialReading, Null)

\* A variant of FinalPreviousReading that never looks the flat up.
FinalPreviousReadingNoInitial(prev, flatId) ==
    Coalesce(PreviousOfPrev(prev), Num(0)).v

\* finalPreviousReading: the prior approved reading's value, else the flat's
\* initial reading, else 0.
FinalPreviousReading(prev, flatId) ==
    LET previousReading == PreviousOfPrev(prev)
        withInitial == IF previousReading = Null THEN InitialReadingOf(flatId)
                       ELSE previousReading
    IN  Coalesce(withInitial, Num(0)).v

\* A variant of UnitsUsed without the clamp.
UnitsUsedUnclamped(correctedReading, finalPreviousReading) ==
    correctedReading - finalPreviousReading

\* rawUnits > 0 ? rawUnits : 0
UnitsUsed(correctedReading, finalPreviousReading) ==
    LET rawUnits == correctedReading - finalPreviousReading
    IN  IF rawUnits > 0 THEN rawUnits ELSE 0

\* A variant of Amount with the minimum price as a floor.
AmountWithFloor(unitsUsed, unitFactor, tariffPerUnit, minimumPrice) ==
    LET energyAmount == unitsUsed * unitFactor * tariffPerUnit
    IN  IF energyAmount < minimumPrice * 100 THEN minimumPrice * 100 ELSE energyAmount

\* A variant of Amount that bills the units without the unit factor.
AmountWithoutUnitFactor(unitsUsed, unitFactor, tariffPerUnit, minimumPrice) ==
    LET energyAmount == unitsUsed * tariffPerUnit * 10
    IN  energyAmount + minimumPrice * 100

\* energyAmount + minimumPrice, in hundredths
Amount(unitsUsed, unitFactor, tariffPerUnit, minimumPrice) ==
    LET totalKg == unitsUsed * unitFactor
        energyAmount == totalKg * tariffPerUnit
    IN  energyAmount + minimumPrice * 100

\* An approval that freezes the tariff alone, not the unit factor.
ApprovedWithoutUnitFactor(reading, correctedReading, previousReading, unitsUsed, amount, approvedAt, tariffPerUnit, unitFactor) ==
    [reading EXCEPT
        !.correctedReading = Num(correctedReading),
        !.previousReading = Num(previousReading),
        !.unitsUsed = Num(unitsUsed),
        !.amount = Num(amount),
        !.status = "approved",
        !.approvedAt = Num(approvedAt),
        !.tariffAtApproval = Num(tariffPerUnit)]

\* An approval that takes the value the reading already held as its previous
\* reading.
ApprovedOnItsOwnValue(reading, correctedReading, previousReading, unitsUsed, amount, approvedAt, tariffPerUnit, unitFactor) ==
    [reading EXCEPT
        !.correctedReading = Num(correctedReading),
        !.previousReading = Coalesce(reading.correctedReading, Num(previousReading)),
        !.unitsUsed = Num(unitsUsed),
        !.amount = Num(amount),
        !.status = "approved",
        !.approvedAt = Num(approvedAt),
        !.tariffAtApproval = Num(tariffPerUnit),
        !.unitFactorAtApproval = Num(unitFactor)]

\* The document after updateDoc(readingRef, {...}) of approveReading.
Approved(reading, correctedReading, previousReading, unitsUsed, amount, approvedAt, tariffPerUnit, unitFactor) ==
    [reading EXCEPT
        !.correctedReading = Num(correctedReading),
        !.previousReading = Num(previousReading),
        !.unitsUsed = Num(unitsUsed),
        !.amount = Num(amount),
        !.status = "approved",
        !.approvedAt = Num(approvedAt),
        !.tariffAtApproval = Num(tariffPerUnit),
        !.unitFactorAtApproval = Num(unitFactor)]

\* An approval that creates the document it does not find.
approveMissingReadingByCreatingIt(readingId, correctedReading) ==
    /\ readings' = Append(readings,
            [NewReading("A-101", "", Undefined, now, getYearMonth(now))
                EXCEPT !.status = "approved", !.correctedReading = Num(correctedReading)])
    /\ last' = [NoCall EXCEPT !.op = "approveReading", !.id = readingId,
                              !.corrected = correctedReading]
    /\ UNCHANGED <<settings, flats, now>>

\* if (!snap.exists()) throw new Error('Reading not found')
approveMissingReading(readingId, correctedReading) ==
    /\ last' = [NoCall EXCEPT !.op = "approveReading", !.id = readingId,
                              !.corrected = correctedReading,
                              !.err = "Reading not found"]
    /\ UNCHANGED <<readings, settings, flats, now>>

approveReading(readingId, correctedReading) ==
    IF readingId \notin DOMAIN readings
    THEN approveMissingReading(readingId, correctedReading)
    ELSE LET reading == readings[readingId]
             tariffPerUnit == getGlobalTariff
             minimumPrice == getMinimumPrice
             unitFactor == getUnitFactor
         IN  \E prev \in PrevCandidates(PrevList(readingId, reading.flatId)) :
                LET finalPreviousReading == FinalPreviousReading(prev, reading.flatId)
                    unitsUsed == UnitsUsed(correctedReading, finalPreviousReading)
                    amount == Amount(unitsUsed, unitFactor, tariffPerUnit, minimumPrice)
                IN  /\ readings' = [readings EXCEPT ![readingId] =
                            Approved(reading, correctedReading, finalPreviousReading,
                                     unitsUsed, amount, now, tariffPerUnit, unitFactor)]
                    /\ last' = [NoCall EXCEPT !.op = "approveReading", !.id = readingId,
                                              !.flat = reading.flatId,
                                              !.corrected = correctedReading,
                                              !.before = reading]
                    /\ UNCHANGED <<settings, flats, now>>

\* A rejection that also wipes the amount billed.
RejectedClearingAmount(reading, reason) ==
    [reading EXCEPT !.status = "rejected", !.rejectionReason = Coalesce(reason, NullStr),
                    !.amount = Null]

\* The document after updateDoc(readingRef, {...}) of rejectReading.
Rejected(reading, reason) ==
    [reading EXCEPT !.status = "rejected", !.rejectionReason = Coalesce(reason, NullStr)]

\* updateDoc fails on a document that does not exist and writes nothing.
rejectReading(readingId, reason) ==
    IF readingId \notin DOMAIN readings
    THEN /\ last' = [NoCall EXCEPT !.op = "rejectReading", !.id = readingId,
                                   !.err = "No document to update"]
         /\ UNCHANGED <<readings, settings, flats, now>>
    ELSE /\ readings' = [readings EXCEPT ![readingId] = Rejected(readings[readingId], reason)]
         /\ last' = [NoCall EXCEPT !.op = "rejectReading", !.id = readingId,
                                   !.flat = readings[readingId].flatId,
                                   !.reason = reason]
         /\ UNCHANGED <<settings, flats, now>>

\* A reopening that leaves the stored amount in place.
ReopenedKeepingAmount(reading, reason) ==
    [reading EXCEPT
        !.status = "pending",
        !.rejectionReason = NullStr,
        !.reopenReason = Coalesce(reason, NullStr),
        !.unitsUsed = Null,
        !.approvedAt = Null,
        !.tariffAtApproval = Null]

\* A reopening that also drops the value the tenant typed.
ReopenedWithoutTenantReading(reading, reason) ==
    [reading EXCEPT
        !.status = "pending",
        !.rejectionReason = NullStr,
        !.reopenReason = Coalesce(reason, NullStr),
        !.unitsUsed = Null,
        !.amount = Null,
        !.approvedAt = Null,
        !.tariffAtApproval = Null,
        !.tenantReading = Null]

\* A reopening that clears the computed fields and forgets the status.
ReopenedStillApproved(reading, reason) ==
    [reading EXCEPT
        !.rejectionReason = NullStr,
        !.reopenReason = Coalesce(reason, NullStr),
        !.unitsUsed = Null,
        !.amount = Null,
        !.approvedAt = Null,
        !.tariffAtApproval = Null]

\* A reopening that leaves the approval time in place.
ReopenedKeepingApprovedAt(reading, reason) ==
    [reading EXCEPT
        !.status = "pending",
        !.rejectionReason = NullStr,
        !.reopenReason = Coalesce(reason, NullStr),
        !.unitsUsed = Null,
        !.amount = Null,
        !.tariffAtApproval = Null]

\* The document after updateDoc(readingRef, {...}) of reopenReading.
Reopened(reading, reason) ==
    [reading EXCEPT
        !.status = "pending",
        !.rejectionReason = NullStr,
        !.reopenReason = Coalesce(reason, NullStr),
        !.unitsUsed = Null,
        !.amount = Null,
        !.approvedAt = Null,
        !.tariffAtApproval = Null]

reopenReading(readingId, reason) ==
    IF readingId \notin DOMAIN readings
    THEN /\ last' = [NoCall EXCEPT !.op = "reopenReading", !.id = readingId,
                                   !.err = "No document to update"]
         /\ UNCHANGED <<readings, settings, flats, now>>
    ELSE /\ readings' = [readings EXCEPT ![readingId] = Reopened(readings[readingId], reason)]
         /\ last' = [NoCall EXCEPT !.op = "reopenReading", !.id = readingId,
                                   !.flat = readings[readingId].flatId,
                                   !.reason = reason,
                                   !.before = readings[readingId]]
         /\ UNCHANGED <<settings, flats, now>>

----------------------------------------------------------------------------
(* approveReading as two admins run it at once: every await of lines 215-248
   is a read of the database, line 267 is its one write.  The reads of one
   call are taken together: of what they read, only the set of approved
   readings changes while approvals run. *)

\* An admin with no call under way.
NoRequest ==
    [pc |-> "idle", id |-> 0, flat |-> "", status |-> "", corrected |-> 0,
     previous |-> 0, tariffPerUnit |-> 0, minimumPrice |-> 0, unitFactor |-> 0,
     err |-> "", sawNoWrite |-> FALSE]

\* The call has written its approval.
Wrote(call) == call.pc = "done" /\ call.err = ""

\* Lines 214-252: the reading, the three settings, the flat's approved
\* readings and the flat.  sawNoWrite notes whether any other admin's call
\* had written before these reads.
approveReadingRead(admin, readingId, correctedReading) ==
    /\ inflight[admin].pc = "idle"
    /\ IF readingId \notin DOMAIN readings
       THEN /\ inflight' = [inflight EXCEPT ![admin] =
                    [NoRequest EXCEPT !.pc = "done", !.id = readingId,
                                      !.corrected = correctedReading,
                                      !.err = "Reading not found"]]
            /\ last' = [NoCall EXCEPT !.op = "approveReading: read", !.id = readingId,
                                      !.corrected = correctedReading,
                                      !.err = "Reading not found"]
       ELSE LET reading == readings[readingId]
            IN  /\ \E prev \in PrevCandidates(PrevList(readingId, reading.flatId)) :
                        inflight' = [inflight EXCEPT ![admin] =
                            [pc |-> "write", id |-> readingId, flat |-> reading.flatId,
                             status |-> reading.status,
                             corrected |-> correctedReading,
                             previous |-> FinalPreviousReading(prev, reading.flatId),
                             tariffPerUnit |-> getGlobalTariff,
                             minimumPrice |-> getMinimumPrice,
                             unitFactor |-> getUnitFactor,
                             err |-> "",
                             sawNoWrite |-> \A other \in Admins \ {admin} :
                                                ~Wrote(inflight[other])]]
                /\ last' = [NoCall EXCEPT !.op = "approveReading: read", !.id = readingId,
                                          !.flat = reading.flatId,
                                          !.corrected = correctedReading]
    /\ UNCHANGED <<readings, settings, flats, now, steps, migration, page, users>>

\* A write that looks up the previous reading again at the time it writes.
approveReadingWriteRereading(admin) ==
    /\ inflight[admin].pc = "write"
    /\ LET call == inflight[admin]
       IN  \E prev \in PrevCandidates(PrevList(call.id, call.flat)) :
              LET finalPreviousReading == FinalPreviousReading(prev, call.flat)
                  unitsUsed == UnitsUsed(call.corrected, finalPreviousReading)
                  amount == Amount(unitsUsed, call.unitFactor, call.tariffPerUnit,
                                   call.minimumPrice)
              IN  /\ readings' = [readings EXCEPT ![call.id] =
                          Approved(@, call.corrected, finalPreviousReading, unitsUsed,
                                   amount, now, call.tariffPerUnit, call.unitFactor)]
                  /\ last' = [NoCall EXCEPT !.op = "approveReading: write", !.id = call.id,
                                            !.flat = call.flat, !.corrected = call.corrected]
    /\ inflight' = [inflight EXCEPT ![admin].pc = "done"]
    /\ UNCHANGED <<settings, flats, now, steps, migration, page, users>>

\* Lines 254-278: the units and the amount from what the call read, and
\* updateDoc with approvedAt = Date.now().
approveReadingWrite(admin) ==
    /\ inflight[admin].pc = "write"
    /\ LET call == inflight[admin]
           unitsUsed == UnitsUsed(call.corrected, call.previous)
           amount == Amount(unitsUsed, call.unitFactor, call.tariffPerUnit,
                            call.minimumPrice)
       IN  /\ readings' = [readings EXCEPT ![call.id] =
                   Approved(@, call.corrected, call.previous, unitsUsed, amount, now,
                            call.tariffPerUnit, call.unitFactor)]
           /\ last' = [NoCall EXCEPT !.op = "approveReading: write", !.id = call.id,
                                     !.flat = call.flat, !.corrected = call.corrected]
    /\ inflight' = [inflight EXCEPT ![admin].pc = "done"]
    /\ UNCHANGED <<settings, flats, now, steps, migration, page, users>>

----------------------------------------------------------------------------
(* scripts/migration: export-firebase.cjs writes a database to a JSON file,
   import-firebase.cjs writes a JSON file into a database.  A database maps
   each collection to its documents, by document id. *)

ExportOrder == <<"users", "flats", "readings", "settings">>
ImportOrder == <<"settings", "users", "flats", "readings">>
CollectionNames == {"users", "flats", "readings", "settings"}

\* JSON.parse(JSON.stringify(value)): a number that is not finite comes back
\* as null, an undefined field is left out and stays absent, every other
\* value comes back as it was.
JsonValue(value) ==
    IF value.k = "nonfinite" THEN Null ELSE value

JsonDocument(document) == [field \in DOMAIN document |-> JsonValue(document[field])]

\* JSON.parse(fs.readFileSync(...)) of JSON.stringify(backup, null, 2)
JsonBackup(backup) ==
    [name \in DOMAIN backup |->
        [id \in DOMAIN backup[name] |-> JsonDocument(backup[name][id])]]

\* batch.set(ref, docData) with merge: the fields the backup lacks survive.
SetDocumentMerging(collection, docId, docData) ==
    IF docId \in DOMAIN collection
    THEN [id \in DOMAIN collection |->
            IF id = docId
            THEN [field \in DOMAIN docData |->
                    IF docData[field].k = "undefined" THEN collection[id][field]
                    ELSE docData[field]]
            ELSE collection[id]]
    ELSE [id \in DOMAIN collection \cup {docId} |->
            IF id = docId THEN docData ELSE collection[id]]

\* batch.set(ref, docData), committed: the document is docData.
SetDocument(collection, docId, docData) ==
    [id \in DOMAIN collection \cup {docId} |->
        IF id = docId THEN docData ELSE collection[id]]

\* exportCollection(collectionName), lines 14-25: data[doc.id] = doc.data()
\* for every document of the collection.
exportCollection ==
    /\ migration.pc = "export"
    /\ migration.next <= Len(ExportOrder)
    /\ LET collectionName == ExportOrder[migration.next]
           data == [id \in DOMAIN migration.source[collectionName] |->
                        migration.source[collectionName][id]]
       IN  migration' = [migration EXCEPT
                            !.backup = [@ EXCEPT ![collectionName] = data],
                            !.next = @ + 1]
    /\ last' = [NoCall EXCEPT !.op = "exportCollection"]
    /\ UNCHANGED <<readings, settings, flats, now, steps, inflight, page, users>>

\* Lines 39-40 of the export and line 46 of the import: the backup goes
\* through the JSON file.
writeAndReadBackup ==
    /\ migration.pc = "export"
    /\ migration.next > Len(ExportOrder)
    /\ migration' = [migration EXCEPT !.pc = "import", !.next = 1,
                                      !.file = JsonBackup(migration.backup)]
    /\ last' = [NoCall EXCEPT !.op = "writeAndReadBackup"]
    /\ UNCHANGED <<readings, settings, flats, now, steps, inflight, page, users>>

\* One turn of the loop of importCollection, lines 21-33: the batch gets one
\* document and is committed.
importDocument ==
    /\ migration.pc = "import"
    /\ migration.next <= Len(ImportOrder)
    /\ LET collectionName == ImportOrder[migration.next]
           data == migration.file[collectionName]
       IN  \E docId \in DOMAIN data \ migration.imported :
              migration' = [migration EXCEPT
                  !.target = [@ EXCEPT ![collectionName] =
                                  SetDocument(@, docId, data[docId])],
                  !.writes = [@ EXCEPT ![collectionName] =
                                  [id \in DocIds |-> IF id = docId THEN @[id] + 1 ELSE @[id]]],
                  !.imported = @ \cup {docId}]
    /\ last' = [NoCall EXCEPT !.op = "importDocument"]
    /\ UNCHANGED <<readings, settings, flats, now, steps, inflight, page, users>>

\* The end of importCollection, lines 35-40: the last batch, which is empty,
\* is committed; the next collection follows, or the import is complete.
importCollectionDone ==
    /\ migration.pc = "import"
    /\ migration.next <= Len(ImportOrder)
    /\ DOMAIN migration.file[ImportOrder[migration.next]] \ migration.imported = {}
    /\ migration' = [migration EXCEPT
                        !.next = @ + 1,
                        !.imported = {},
                        !.pc = IF migration.next = Len(ImportOrder) THEN "done" ELSE "import"]
    /\ last' = [NoCall EXCEPT !.op = "importCollectionDone"]
    /\ UNCHANGED <<readings, settings, flats, now, steps, inflight, page, users>>

----------------------------------------------------------------------------
(* MeterUploadForm.tsx: the tenant's upload form.  `page` holds the state of
   the component (file, tenantReading, uploading, message, error) and, in
   `calls`, the service calls the last submission has made. *)

\* useState: nothing chosen, nothing typed, nothing shown.
MeterUploadForm(flatId) ==
    [component |-> "MeterUploadForm", flatId |-> flatId, file |-> FALSE,
     tenantReading |-> "", uploading |-> FALSE, message |-> NullStr,
     error |-> NullStr, calls |-> {}]

\* tenantReading.trim()
Trim(text) ==
    CASE text = "  " -> ""
      [] text = " 35 " -> "35"
      [] text = " bob " -> "bob"
      [] text = " pw " -> "pw"
      [] OTHER -> text

\* Number(readingValue): NaN for a text that is no number.
NotANumber == [k |-> "nan", v |-> 0]

Number(text) ==
    CASE text = "35" -> Num(35)
      [] text = "" -> Num(0)
      [] OTHER -> NotANumber

\* onChange of the file input and of the reading input
chooseFile ==
    /\ page.component = "MeterUploadForm"
    /\ ~page.uploading
    /\ page' = [page EXCEPT !.file = TRUE]
    /\ last' = [NoCall EXCEPT !.op = "chooseFile"]
    /\ UNCHANGED <<readings, settings, flats, now, steps, inflight, migration, users>>

typeReading(text) ==
    /\ page.component = "MeterUploadForm"
    /\ ~page.uploading
    /\ page' = [page EXCEPT !.tenantReading = text]
    /\ last' = [NoCall EXCEPT !.op = "typeReading"]
    /\ UNCHANGED <<readings, settings, flats, now, steps, inflight, migration, users>>

\* A handleSubmit that takes any text for a number.
handleSubmitWithoutNumberCheck ==
    /\ page.component = "MeterUploadForm"
    /\ ~page.uploading
    /\ LET readingValue == Trim(page.tenantReading)
       IN  page' =
            IF ~page.file
            THEN [page EXCEPT !.error = Str("Please choose a meter photo."), !.calls = {}]
            ELSE IF readingValue = ""
            THEN [page EXCEPT !.error = Str("Please enter the meter reading value."),
                              !.calls = {}]
            ELSE [page EXCEPT !.error = NullStr, !.message = NullStr,
                              !.uploading = TRUE, !.calls = {}]
    /\ last' = [NoCall EXCEPT !.op = "handleSubmit"]
    /\ UNCHANGED <<readings, settings, flats, now, steps, inflight, migration, users>>

\* handleSubmit up to its first await, lines 17-41.  The submit button is
\* disabled while uploading.
handleSubmit ==
    /\ page.component = "MeterUploadForm"
    /\ ~page.uploading
    /\ LET readingValue == Trim(page.tenantReading)
           parsedReading == Number(readingValue)
       IN  page' =
            IF ~page.file
            THEN [page EXCEPT !.error = Str("Please choose a meter photo."), !.calls = {}]
            ELSE IF readingValue = ""
            THEN [page EXCEPT !.error = Str("Please enter the meter reading value."),
                              !.calls = {}]
            ELSE IF parsedReading = NotANumber
            THEN [page EXCEPT !.error = Str("Please enter a valid meter reading number."),
                              !.calls = {}]
            ELSE [page EXCEPT !.error = NullStr, !.message = NullStr,
                              !.uploading = TRUE, !.calls = {}]
    /\ last' = [NoCall EXCEPT !.op = "handleSubmit"]
    /\ UNCHANGED <<readings, settings, flats, now, steps, inflight, migration, users>>

\* Lines 41 and 47-51 when uploadMeterImage rejects ('Failed to read file').
uploadFails ==
    /\ page.component = "MeterUploadForm"
    /\ page.uploading
    /\ page' = [page EXCEPT !.error = Str("Failed to read file"),
                            !.uploading = FALSE,
                            !.calls = {"uploadMeterImage"}]
    /\ last' = [NoCall EXCEPT !.op = "uploadMeterImage", !.err = "Failed to read file"]
    /\ UNCHANGED <<readings, settings, flats, now, steps, inflight, migration, users>>

\* Lines 41-51 when uploadMeterImage resolves: createReadingFromImage runs;
\* its error is shown, or the success message is and the form is cleared.
submissionFinishes(imageUrl) ==
    /\ page.component = "MeterUploadForm"
    /\ page.uploading
    /\ createReadingFromImage(page.flatId, imageUrl, Number(Trim(page.tenantReading)))
    /\ page' =
         IF last'.err # ""
         THEN [page EXCEPT !.error = Str(last'.err),
                           !.uploading = FALSE,
                           !.calls = {"uploadMeterImage", "createReadingFromImage"}]
         ELSE [page EXCEPT
                 !.message = Str("Image uploaded successfully. Your reading will be reviewed by an admin."),
                 !.file = FALSE,
                 !.tenantReading = "",
                 !.uploading = FALSE,
                 !.calls = {"uploadMeterImage", "createReadingFromImage"}]
    /\ UNCHANGED <<steps, inflight, migration, users>>

----------------------------------------------------------------------------
(* AdminUsersPage: the admin edits a user's profile and resets a password.
   `page` holds the component's state: the loaded users and flats, the user
   being edited, the form fields, submitting, error and success, and in
   `calls` the service calls the last handler has made.  The services of
   services/users and services/flats write the `users` and `flats`
   collections. *)

\* The users service stores a hash of the password, never the password.
Hash(password) == <<"hash", password>>

updateUsername(userId, username) == [users EXCEPT ![userId].username = username]

updateUserPassword(userId, password) ==
    [users EXCEPT ![userId].passwordHash = Hash(password)]

updateFlat(flatId, ownerName) == [flats EXCEPT ![flatId].ownerName = Str(ownerName)]

\* a || b on strings: null, undefined and '' are falsy
OrElseStr(a, b) == IF Nullish(a) \/ a.v = "" THEN b ELSE a

\* useState: nothing loaded, nobody being edited.
AdminUsersPage ==
    [component |-> "AdminUsersPage", users |-> <<>>, flats |-> <<>>,
     editingUserId |-> "", newUsername |-> "", newOwnerName |-> "",
     showPasswordReset |-> FALSE, newPassword |-> "", submitting |-> FALSE,
     error |-> NullStr, success |-> NullStr, calls |-> {}]

\* The state setters of loadData, with what getAllUsers and getAllFlats return.
Loaded(p, allUsers, allFlats) == [p EXCEPT !.users = allUsers, !.flats = allFlats]

\* The state setters of handleCancelEdit.
CancelledEdit(p) ==
    [p EXCEPT !.editingUserId = "", !.newUsername = "", !.newOwnerName = "",
              !.showPasswordReset = FALSE, !.newPassword = "",
              !.error = NullStr, !.success = NullStr]

\* flats.find((f) => f.userId === userId): the ids of the loaded flats of the user.
FlatsOfUser(p, userId) == {f \in DOMAIN p.flats : p.flats[f].userId = userId}

loadData ==
    /\ page.component = "AdminUsersPage"
    /\ page' = [Loaded(page, users, flats) EXCEPT !.calls = {}]
    /\ last' = [NoCall EXCEPT !.op = "loadData"]
    /\ UNCHANGED <<readings, settings, flats, now, steps, inflight, migration, users>>

handleEditClick(userId) ==
    /\ page.component = "AdminUsersPage"
    /\ userId \in DOMAIN page.users
    /\ LET owned == FlatsOfUser(page, userId)
           ownerName == IF owned = {} THEN ""
                        ELSE LET userFlat == page.flats[CHOOSE f \in owned : TRUE]
                             IN  OrElseStr(OrElseStr(userFlat.ownerName, userFlat.tenantName), Str("")).v
       IN  page' = [page EXCEPT !.editingUserId = userId,
                                !.newUsername = page.users[userId].username,
                                !.newOwnerName = ownerName,
                                !.showPasswordReset = FALSE,
                                !.newPassword = "",
                                !.error = NullStr,
                                !.success = NullStr,
                                !.calls = {}]
    /\ last' = [NoCall EXCEPT !.op = "handleEditClick"]
    /\ UNCHANGED <<readings, settings, flats, now, steps, inflight, migration, users>>

handleCancelEdit ==
    /\ page.component = "AdminUsersPage"
    /\ page.editingUserId # ""
    /\ page' = [CancelledEdit(page) EXCEPT !.calls = {}]
    /\ last' = [NoCall EXCEPT !.op = "handleCancelEdit"]
    /\ UNCHANGED <<readings, settings, flats, now, steps, inflight, migration, users>>

\* onChange of the three inputs of the edit form, and the button that shows
\* the password input
typeUsername(text) ==
    /\ page.component = "AdminUsersPage"
    /\ page.editingUserId # ""
    /\ page' = [page EXCEPT !.newUsername = text]
    /\ last' = [NoCall EXCEPT !.op = "typeUsername"]
    /\ UNCHANGED <<readings, settings, flats, now, steps, inflight, migration, users>>

typeOwnerName(text) ==
    /\ page.component = "AdminUsersPage"
    /\ page.editingUserId # ""
    /\ page' = [page EXCEPT !.newOwnerName = text]
    /\ last' = [NoCall EXCEPT !.op = "typeOwnerName"]
    /\ UNCHANGED <<readings, settings, flats, now, steps, inflight, migration, users>>

typePassword(text) ==
    /\ page.component = "AdminUsersPage"
    /\ page.editingUserId # ""
    /\ page.showPasswordReset
    /\ page' = [page EXCEPT !.newPassword = text]
    /\ last' = [NoCall EXCEPT !.op = "typePassword"]
    /\ UNCHANGED <<readings, settings, flats, now, steps, inflight, migration, users>>

showThePasswordReset ==
    /\ page.component = "AdminUsersPage"
    /\ page.editingUserId # ""
    /\ ~page.showPasswordReset
    /\ page' = [page EXCEPT !.showPasswordReset = TRUE]
    /\ last' = [NoCall EXCEPT !.op = "showPasswordReset"]
    /\ UNCHANGED <<readings, settings, flats, now, steps, inflight, migration, users>>

\* handleSaveProfile(e, user) for the user of the row being edited.  `thrown`
\* names the service call that throws, "" when none does.
handleSaveProfile(userId, thrown) ==
    /\ page.component = "AdminUsersPage"
    /\ page.editingUserId = userId
    /\ userId \in DOMAIN page.users
    /\ LET user == page.users[userId]
           username == Trim(page.newUsername)
           ownerName == Trim(page.newOwnerName)
           owned == FlatsOfUser(page, userId)
           flatId == CHOOSE f \in owned : TRUE
           renames == username # user.username
           renamesOwner == /\ owned # {}
                           /\ \/ page.flats[flatId].ownerName # Str(ownerName)
                              \/ page.flats[flatId].tenantName # Str(ownerName)
       IN  IF username = ""
           THEN /\ thrown = ""
                /\ page' = [page EXCEPT !.error = Str("Username cannot be empty."),
                                        !.calls = {}]
                /\ last' = [NoCall EXCEPT !.op = "handleSaveProfile", !.flat = userId]
                /\ UNCHANGED <<users, flats>>
           ELSE /\ thrown \in {""} \cup (IF renames THEN {"updateUsername"} ELSE {})
                                   \cup (IF renamesOwner THEN {"updateFlat"} ELSE {})
                /\ users' = IF renames /\ thrown # "updateUsername"
                            THEN updateUsername(userId, username) ELSE users
                /\ flats' = IF renamesOwner /\ thrown = ""
                            THEN updateFlat(flatId, ownerName) ELSE flats
                /\ LET calls == (IF renames THEN {"updateUsername"} ELSE {})
                                 \cup (IF renamesOwner /\ thrown # "updateUsername"
                                       THEN {"updateFlat"} ELSE {})
                   IN  page' =
                        IF thrown = ""
                        THEN [CancelledEdit(Loaded(page, users', flats')) EXCEPT
                                !.submitting = FALSE, !.calls = calls]
                        ELSE [page EXCEPT !.error = Str(thrown), !.success = NullStr,
                                          !.submitting = FALSE, !.calls = calls]
                /\ last' = [NoCall EXCEPT !.op = "handleSaveProfile", !.flat = userId,
                                          !.err = thrown]
    /\ UNCHANGED <<readings, settings, now, steps, inflight, migration>>

\* A handleResetPassword that tests the password as typed, without trimming it.
handleResetPasswordUntrimmed(userId, thrown) ==
    /\ page.component = "AdminUsersPage"
    /\ page.editingUserId = userId
    /\ page.showPasswordReset
    /\ IF page.newPassword = ""
       THEN /\ thrown = ""
            /\ page' = [page EXCEPT !.error = Str("Password cannot be empty."),
                                    !.calls = {}]
            /\ UNCHANGED users
       ELSE /\ thrown \in {"", "updateUserPassword"}
            /\ users' = IF thrown = "" THEN updateUserPassword(userId, page.newPassword)
                        ELSE users
            /\ page' =
                 IF thrown = ""
                 THEN [page EXCEPT !.error = NullStr,
                                   !.success = Str("Password reset successfully."),
                                   !.newPassword = "",
                                   !.submitting = FALSE,
                                   !.calls = {"updateUserPassword"}]
                 ELSE [page EXCEPT !.error = Str(thrown), !.success = NullStr,
                                   !.submitting = FALSE,
                                   !.calls = {"updateUserPassword"}]
    /\ last' = [NoCall EXCEPT !.op = "handleResetPassword", !.flat = userId, !.err = thrown]
    /\ UNCHANGED <<readings, settings, flats, now, steps, inflight, migration>>

\* handleResetPassword(userId) for the user of the row being edited; the
\* password is stored as typed.
handleResetPassword(userId, thrown) ==
    /\ page.component = "AdminUsersPage"
    /\ page.editingUserId = userId
    /\ page.showPasswordReset
    /\ IF Trim(page.newPassword) = ""
       THEN /\ thrown = ""
            /\ page' = [page EXCEPT !.error = Str("Password cannot be empty."),
                                    !.calls = {}]
            /\ UNCHANGED users
       ELSE /\ thrown \in {"", "updateUserPassword"}
            /\ users' = IF thrown = "" THEN updateUserPassword(userId, page.newPassword)
                        ELSE users
            /\ page' =
                 IF thrown = ""
                 THEN [page EXCEPT !.error = NullStr,
                                   !.success = Str("Password reset successfully."),
                                   !.newPassword = "",
                                   !.submitting = FALSE,
                                   !.calls = {"updateUserPassword"}]
                 ELSE [page EXCEPT !.error = Str(thrown), !.success = NullStr,
                                   !.submitting = FALSE,
                                   !.calls = {"updateUserPassword"}]
    /\ last' = [NoCall EXCEPT !.op = "handleResetPassword", !.flat = userId, !.err = thrown]
    /\ UNCHANGED <<readings, settings, flats, now, steps, inflight, migration>>

----------------------------------------------------------------------------
(* The grand total shown for a reading.  Amounts are in hundredths. *)

Max(a, b) == IF a > b THEN a ELSE b

\* calculateGrandTotal of ReadingCard.tsx: the fallback tariff is 70, the
\* fallback unit factor 2.3 and the minimum charge 25.
ReadingCardGrandTotal(reading) ==
    IF reading.status # "approved" THEN Coalesce(reading.amount, Num(0)).v
    ELSE LET prev == Coalesce(reading.previousReading, Num(0)).v
             current == Coalesce(reading.correctedReading,
                                 Coalesce(reading.ocrReading, Num(0))).v
             units == Coalesce(reading.unitsUsed, Num(Max(0, current - prev))).v
             tariffPerKg == Coalesce(reading.tariffAtApproval, Num(700)).v
             unitFactor == Coalesce(reading.unitFactorAtApproval, Num(23)).v
             minimumCharge == 25
             totalKg == units * unitFactor
             energyAmount == totalKg * tariffPerKg
         IN  energyAmount + minimumCharge * 100

DEFAULT_UNIT_CONVERSION_KG == 23
DEFAULT_MINIMUM_CHARGE == 25

\* calculateGrandTotal of the monthly summary in MeterUploadForm.tsx.
SummaryGrandTotal(reading) ==
    LET units == Coalesce(reading.unitsUsed, Num(0)).v
        unitFactor == Coalesce(reading.unitFactorAtApproval, Num(DEFAULT_UNIT_CONVERSION_KG)).v
        tariffPerKg == Coalesce(reading.tariffAtApproval, Num(0)).v
        totalKg == units * unitFactor
        energyAmount == totalKg * tariffPerKg
        grandTotal == energyAmount + DEFAULT_MINIMUM_CHARGE * 100
    IN  grandTotal

----------------------------------------------------------------------------
(* The clock and the specification *)

\* Time passes between two calls.  Every call reads the one clock `now`, so
\* two calls may read the same timestamp and no call reads an earlier one
\* than the call before it.
Tick ==
    /\ now < MaxTime
    /\ now' = now + 1
    /\ last' = [NoCall EXCEPT !.op = "tick"]
    /\ UNCHANGED <<readings, settings, flats>>

ReasonInputs == {UndefinedStr} \cup {Str(s) : s \in Reasons}
\* The tenant of the first flat submits the photo alone, the others also type
\* the value they read.
TenantReadingInputs(flatId) ==
    IF flatId = "A-101" THEN {Undefined} ELSE {Num(n) : n \in TenantReadings}
InitialReadingInputs == {Undefined} \cup {Num(n) : n \in InitialReadings}

\* The ids a call is made with: those of the documents that exist and one
\* that does not (every id without a document behaves alike).
ReadingIds == 1..(Len(readings) + 1)

\* The empty store.
Init ==
    /\ readings = <<>>
    /\ settings = [exists |-> FALSE, tariffPerUnit |-> Undefined,
                   minimumPrice |-> Undefined, unitFactor |-> Undefined]
    /\ flats = [f \in FlatIds |-> NoFlat]
    /\ now = 1
    /\ last = NoCall
    /\ steps = 0
    /\ inflight = [a \in Admins |-> NoRequest]
    /\ migration = NoMigration
    /\ page = NoPage
    /\ users = NoUsers

\* One more step, while the budget of the run lasts.
Budget(n) == steps < n /\ steps' = steps + 1

\* A call that runs from its first read to its last write with no other call
\* in between.
Sequential(n) == Budget(n) /\ UNCHANGED <<inflight, migration, page, users>>

Next ==
    \/ /\ Sequential(MaxSteps)
       /\ \E f \in FlatIds, u \in ImageUrls : \E t \in TenantReadingInputs(f) :
            createReadingFromImage(f, u, t)
    \/ /\ Sequential(MaxSteps)
       /\ \E id \in ReadingIds, c \in CorrectedValues : approveReading(id, c)
    \/ /\ Sequential(MaxSteps)
       /\ \E id \in ReadingIds, r \in ReasonInputs : rejectReading(id, r)
    \/ /\ Sequential(MaxSteps)
       /\ \E id \in ReadingIds, r \in ReasonInputs : reopenReading(id, r)
    \/ /\ Sequential(MaxSteps)
       /\ \E t \in TariffValues : updateGlobalTariff(t)
    \/ /\ Sequential(MaxSteps)
       /\ \E m \in MinimumPriceValues : updateMinimumPrice(m)
    \/ /\ Sequential(MaxSteps)
       /\ \E u \in UnitFactorValues : updateUnitFactor(u)
    \/ /\ Sequential(MaxSteps)
       /\ \E f \in FlatIds, i \in InitialReadingInputs : createFlat(f, i)
    \/ /\ Sequential(MaxSteps)
       /\ Tick

Spec == Init /\ [][Next]_vars

\* The readings service alone on one flat, under the default settings and
\* without a flat record: longer runs.
OneFlat == {"A-101"}

NextOneFlat ==
    \/ /\ Sequential(MaxStepsOneFlat)
       /\ \E f \in OneFlat, u \in ImageUrls : \E t \in TenantReadingInputs(f) :
            createReadingFromImage(f, u, t)
    \/ /\ Sequential(MaxStepsOneFlat)
       /\ \E id \in ReadingIds, c \in CorrectedValues : approveReading(id, c)
    \/ /\ Sequential(MaxStepsOneFlat)
       /\ \E id \in ReadingIds : rejectReading(id, UndefinedStr)
    \/ /\ Sequential(MaxStepsOneFlat)
       /\ \E id \in ReadingIds : reopenReading(id, UndefinedStr)
    \/ /\ Sequential(MaxStepsOneFlat)
       /\ Tick

SpecOneFlat == Init /\ [][NextOneFlat]_vars

\* The settings getters on any settings document: Firestore keeps whatever
\* was written to config/globalSettings, so each field is missing, null, a
\* string or a number, or the document does not exist.
StoredValues(numbers) == {Undefined, Null, Str("7.5")} \cup {Num(n) : n \in numbers}

SettingsDocuments ==
    {[exists |-> FALSE, tariffPerUnit |-> Undefined,
      minimumPrice |-> Undefined, unitFactor |-> Undefined]}
    \cup [exists : {TRUE},
          tariffPerUnit : StoredValues(TariffValues),
          minimumPrice : StoredValues(MinimumPriceValues),
          unitFactor : StoredValues(UnitFactorValues)]

InitAnySettings ==
    /\ readings = <<>>
    /\ settings \in SettingsDocuments
    /\ flats = [f \in FlatIds |-> NoFlat]
    /\ now = 1
    /\ last = NoCall
    /\ steps = 0
    /\ inflight = [a \in Admins |-> NoRequest]
    /\ migration = NoMigration
    /\ page = NoPage
    /\ users = NoUsers

NextSettings ==
    \/ /\ Sequential(MaxStepsSettings)
       /\ \E f \in OneFlat, u \in ImageUrls : \E t \in TenantReadingInputs(f) :
            createReadingFromImage(f, u, t)
    \/ /\ Sequential(MaxStepsSettings)
       /\ \E id \in ReadingIds, c \in CorrectedValues : approveReading(id, c)
    \/ /\ Sequential(MaxStepsSettings)
       /\ \E t \in TariffValues : updateGlobalTariff(t)
    \/ /\ Sequential(MaxStepsSettings)
       /\ \E m \in MinimumPriceValues : updateMinimumPrice(m)
    \/ /\ Sequential(MaxStepsSettings)
       /\ \E u \in UnitFactorValues : updateUnitFactor(u)

SpecSettings == InitAnySettings /\ [][NextSettings]_vars

\* Settings written several times, with different values, between uploads
\* and approvals.
NextUpdates ==
    \/ /\ Sequential(MaxStepsUpdates)
       /\ \E f \in FlatIds, u \in ImageUrls : \E t \in TenantReadingInputs(f) :
            createReadingFromImage(f, u, t)
    \/ /\ Sequential(MaxStepsUpdates)
       /\ \E id \in DOMAIN readings : approveReading(id, 100)
    \/ /\ Sequential(MaxStepsUpdates)
       /\ \E t \in TariffValues \cup LaterTariffValues : updateGlobalTariff(t)
    \/ /\ Sequential(MaxStepsUpdates)
       /\ \E m \in MinimumPriceValues \cup LaterMinimumPriceValues : updateMinimumPrice(m)
    \/ /\ Sequential(MaxStepsUpdates)
       /\ \E u \in UnitFactorValues \cup LaterUnitFactorValues : updateUnitFactor(u)

SpecUpdates == Init /\ [][NextUpdates]_vars

\* Uploads to a store that holds one reading written by an earlier version
\* of the code: yearMonth, createdAt and status are each present or absent.
LegacyReading(flatId, createdAt, yearMonth, status) ==
    [NewReading(flatId, "data:image/jpeg", Undefined, 0, 0)
        EXCEPT !.createdAt = createdAt, !.yearMonth = yearMonth, !.status = status]

LegacyReadings ==
    {LegacyReading(f, c, m, st) :
        f \in FlatIds,
        c \in {Undefined} \cup {Num(t) : t \in 1..MaxTime},
        m \in {Undefined} \cup {Num(getYearMonth(t)) : t \in 1..MaxTime},
        st \in {NoStatus, "pending", "approved", "rejected"}}

InitLegacy ==
    /\ readings \in {<<r>> : r \in LegacyReadings}
    /\ settings = [exists |-> FALSE, tariffPerUnit |-> Undefined,
                   minimumPrice |-> Undefined, unitFactor |-> Undefined]
    /\ flats = [f \in FlatIds |-> NoFlat]
    /\ now = 1
    /\ last = NoCall
    /\ steps = 0
    /\ inflight = [a \in Admins |-> NoRequest]
    /\ migration = NoMigration
    /\ page = NoPage
    /\ users = NoUsers

NextLegacy ==
    \/ /\ \E f \in FlatIds, u \in ImageUrls : \E t \in TenantReadingInputs(f) :
            createReadingFromImage(f, u, t)
       /\ UNCHANGED <<steps, inflight, migration, page, users>>
    \/ Tick /\ UNCHANGED <<steps, inflight, migration, page, users>>

SpecLegacy == InitLegacy /\ [][NextLegacy]_vars

\* The two views rendering an approved reading, which may be a legacy record:
\* unitsUsed, tariffAtApproval, unitFactorAtApproval, previousReading and
\* ocrReading are each present or absent.
ApprovedRecords ==
    {[NewReading("A-101", "data:image/jpeg", Undefined, 1, getYearMonth(1))
        EXCEPT !.status = "approved",
               !.ocrReading = o,
               !.correctedReading = c,
               !.previousReading = p,
               !.unitsUsed = IF n.k = "num" THEN Num(UnitsUsed(c.v, Coalesce(p, Num(0)).v)) ELSE n,
               !.tariffAtApproval = t,
               !.unitFactorAtApproval = u,
               !.amount = Num(0),
               !.approvedAt = Num(1)] :
        o \in {Null, Num(50)},
        c \in {Num(v) : v \in CorrectedValues},
        p \in {Null} \cup {Num(v) : v \in InitialReadings},
        n \in {Undefined, Num(0)},
        t \in {Undefined} \cup {Num(v) : v \in TariffValues},
        u \in {Undefined} \cup {Num(v) : v \in UnitFactorValues}}

InitDisplay ==
    /\ readings \in {<<r>> : r \in ApprovedRecords}
    /\ settings = [exists |-> FALSE, tariffPerUnit |-> Undefined,
                   minimumPrice |-> Undefined, unitFactor |-> Undefined]
    /\ flats = [f \in FlatIds |-> NoFlat]
    /\ now = 1
    /\ last = NoCall
    /\ steps = 0
    /\ inflight = [a \in Admins |-> NoRequest]
    /\ migration = NoMigration
    /\ page = NoPage
    /\ users = NoUsers

\* ReadingCard shows calculateGrandTotal(reading).
renderReadingCard(readingId) ==
    /\ last' = [NoCall EXCEPT !.op = "ReadingCard", !.id = readingId,
                              !.value = ReadingCardGrandTotal(readings[readingId])]
    /\ UNCHANGED <<readings, settings, flats, now, steps, inflight, migration, page, users>>

\* The monthly summary shows calculateGrandTotal(reading).
renderSummary(readingId) ==
    /\ last' = [NoCall EXCEPT !.op = "SummaryModal", !.id = readingId,
                              !.value = SummaryGrandTotal(readings[readingId])]
    /\ UNCHANGED <<readings, settings, flats, now, steps, inflight, migration, page, users>>

NextDisplay ==
    \/ \E id \in DOMAIN readings : renderReadingCard(id)
    \/ \E id \in DOMAIN readings : renderSummary(id)

SpecDisplay == InitDisplay /\ [][NextDisplay]_vars

\* An export of one database and the import of its backup into another.
\* Documents hold what the services write: finite numbers, strings and null,
\* with fields that may be absent.
FirstDocument == [label |-> Str("first"), amount |-> Num(1), note |-> NullStr]
SecondDocument == [label |-> Str("second"), amount |-> Undefined, note |-> UndefinedStr]
OlderDocument == [label |-> Str("older"), amount |-> Num(7), note |-> Str("kept")]

EmptyCollection == [id \in {} |-> FirstDocument]

SourceCollections ==
    { EmptyCollection,
      [id \in {"id1"} |-> FirstDocument],
      [id \in {"id1", "id2"} |-> IF id = "id1" THEN FirstDocument ELSE SecondDocument] }

TargetDatabases ==
    { [name \in CollectionNames |-> EmptyCollection],
      [name \in CollectionNames |-> [id \in {"id2", "id3"} |-> OlderDocument]] }

InitMigration ==
    /\ readings = <<>>
    /\ settings = [exists |-> FALSE, tariffPerUnit |-> Undefined,
                   minimumPrice |-> Undefined, unitFactor |-> Undefined]
    /\ flats = [f \in FlatIds |-> NoFlat]
    /\ now = 1
    /\ last = NoCall
    /\ steps = 0
    /\ inflight = [a \in Admins |-> NoRequest]
    /\ page = NoPage
    /\ users = NoUsers
    /\ \E source \in [CollectionNames -> SourceCollections], target \in TargetDatabases :
          migration = [pc |-> "export", next |-> 1,
                       source |-> source,
                       backup |-> [name \in CollectionNames |-> EmptyCollection],
                       file |-> [name \in CollectionNames |-> EmptyCollection],
                       target |-> target,
                       before |-> target,
                       imported |-> {},
                       writes |-> [name \in CollectionNames |-> [id \in DocIds |-> 0]]]

NextMigration ==
    \/ exportCollection
    \/ writeAndReadBackup
    \/ importDocument
    \/ importCollectionDone

SpecMigration == InitMigration /\ [][NextMigration]_vars

\* A tenant at the upload form, as time passes.
InitUploadForm ==
    /\ readings = <<>>
    /\ settings = [exists |-> FALSE, tariffPerUnit |-> Undefined,
                   minimumPrice |-> Undefined, unitFactor |-> Undefined]
    /\ flats = [f \in FlatIds |-> NoFlat]
    /\ now = 1
    /\ last = NoCall
    /\ steps = 0
    /\ inflight = [a \in Admins |-> NoRequest]
    /\ migration = NoMigration
    /\ page = MeterUploadForm("A-101")
    /\ users = NoUsers

NextUploadForm ==
    \/ chooseFile
    \/ \E text \in ReadingTexts : typeReading(text)
    \/ handleSubmit
    \/ uploadFails
    \/ \E u \in ImageUrls : submissionFinishes(u)
    \/ Tick /\ UNCHANGED <<steps, inflight, migration, page, users>>

SpecUploadForm == InitUploadForm /\ [][NextUploadForm]_vars

\* An admin at the users page: a tenant with a flat and an admin without one.
InitAdminUsers ==
    /\ readings = <<>>
    /\ settings = [exists |-> FALSE, tariffPerUnit |-> Undefined,
                   minimumPrice |-> Undefined, unitFactor |-> Undefined]
    /\ flats = [f \in {"A-101"} |->
                  [exists |-> TRUE, initialReading |-> Undefined, userId |-> "u1",
                   ownerName |-> UndefinedStr, tenantName |-> Str("Asha")]]
    /\ now = 1
    /\ last = NoCall
    /\ steps = 0
    /\ inflight = [a \in Admins |-> NoRequest]
    /\ migration = NoMigration
    /\ page = AdminUsersPage
    /\ users = [u \in UserIds |->
                  [username |-> IF u = "u1" THEN "asha" ELSE "admin",
                   passwordHash |-> Hash("first")]]

NextAdminUsers ==
    \/ loadData
    \/ \E u \in UserIds : handleEditClick(u)
    \/ handleCancelEdit
    \/ \E text \in UsernameTexts : typeUsername(text)
    \/ \E text \in OwnerNameTexts : typeOwnerName(text)
    \/ \E text \in PasswordTexts : typePassword(text)
    \/ showThePasswordReset
    \/ \E u \in UserIds, thrown \in Thrown : handleSaveProfile(u, thrown)
    \/ \E u \in UserIds, thrown \in Thrown : handleResetPassword(u, thrown)

SpecAdminUsers == InitAdminUsers /\ [][NextAdminUsers]_vars

\* Two admins approving at once, on the store a flat has in its third month:
\* the first month's reading approved under the default settings, the second
\* and the third month's readings pending, and a pending reading of another
\* flat.
FirstApproved(corrected) ==
    Approved(NewReading("A-101", "data:image/jpeg", Undefined, 1, getYearMonth(1)),
             corrected, 0, UnitsUsed(corrected, 0),
             Amount(UnitsUsed(corrected, 0), DefaultUnitFactor, DefaultTariff,
                    DefaultMinimumPrice),
             1, DefaultTariff, DefaultUnitFactor)

InitRace ==
    /\ \E e \in EarlierReadings :
          readings = << FirstApproved(e),
                        NewReading("A-101", "data:image/jpeg", Undefined,
                                   TicksPerMonth, getYearMonth(TicksPerMonth)),
                        NewReading("A-101", "data:image/jpeg", Undefined,
                                   2 * TicksPerMonth, getYearMonth(2 * TicksPerMonth)),
                        NewReading("B-202", "data:image/jpeg", Num(35),
                                   2 * TicksPerMonth, getYearMonth(2 * TicksPerMonth)) >>
    /\ settings = [exists |-> FALSE, tariffPerUnit |-> Undefined,
                   minimumPrice |-> Undefined, unitFactor |-> Undefined]
    /\ flats = [f \in FlatIds |-> NoFlat]
    /\ now = 2 * TicksPerMonth
    /\ last = NoCall
    /\ steps = 0
    /\ inflight = [a \in Admins |-> NoRequest]
    /\ migration = NoMigration
    /\ page = NoPage
    /\ users = NoUsers

NextRace ==
    \/ \E a \in Admins, id \in ReadingIds, c \in CorrectedValues :
            approveReadingRead(a, id, c)
    \/ \E a \in Admins : approveReadingWrite(a)

SpecRace == InitRace /\ [][NextRace]_vars

\* Two sessions submitting at once to an empty store, while time passes.
InitUploadRace ==
    /\ readings = <<>>
    /\ settings = [exists |-> FALSE, tariffPerUnit |-> Undefined,
                   minimumPrice |-> Undefined, unitFactor |-> Undefined]
    /\ flats = [f \in FlatIds |-> NoFlat]
    /\ now = 1
    /\ last = NoCall
    /\ steps = 0
    /\ inflight = [s \in Sessions |-> NoUpload]
    /\ migration = NoMigration
    /\ page = NoPage
    /\ users = NoUsers

NextUploadRace ==
    \/ \E s \in Sessions, f \in FlatIds, u \in ImageUrls : \E t \in TenantReadingInputs(f) :
            createReadingQuery(s, f, u, t)
    \/ \E s \in Sessions : createReadingInsert(s)
    \/ Tick /\ UNCHANGED <<steps, inflight, migration, page, users>>

SpecUploadRace == InitUploadRace /\ [][NextUploadRace]_vars

----------------------------------------------------------------------------
(* Properties *)

\* The last step was a call of `op` that ended without an error.
Succeeded(op) == last.op = op /\ last.err = ""

\* The calendar month a reading is attributed to: its stored yearMonth, or
\* the month of its creation when it has none.
MonthOf(r) ==
    IF IsNum(r.yearMonth) THEN r.yearMonth.v
    ELSE IF IsNum(r.createdAt) THEN r.createdAt.v \div TicksPerMonth ELSE 0

\* The flat's readings of the current month that are not rejected, in the
\* collection `rs`.
Conflicting(rs, flatId) ==
    {i \in DOMAIN rs :
        /\ rs[i].flatId = flatId
        /\ MonthOf(rs[i]) = now \div TicksPerMonth
        /\ rs[i].status # "rejected"}

\* The flat's approved readings other than `id`.
OtherApproved(id, flatId) ==
    {i \in DOMAIN readings \ {id} :
        readings[i].flatId = flatId /\ readings[i].status = "approved"}

\* The approval timestamp of a reading, or its creation timestamp when it has
\* no approval timestamp.
ApprovalTime(r) == IF IsNum(r.approvedAt) THEN r.approvedAt.v ELSE r.createdAt.v

\* The corrected value of a reading, or its legacy OCR value.
ValueOf(r) == IF IsNum(r.correctedReading) THEN r.correctedReading ELSE r.ocrReading

\* C1: for every flat and month, at most one reading of the flat bucketed in
\* the month is pending or approved.
C1_AtMostOneActivePerFlatMonth ==
    \A i, j \in DOMAIN readings :
        ( /\ i # j
          /\ readings[i].flatId = readings[j].flatId
          /\ MonthOf(readings[i]) = MonthOf(readings[j])
          /\ readings[i].status \in {"pending", "approved"} )
        => readings[j].status \notin {"pending", "approved"}

\* C2: right after approveReading(id, c) the reading holds
\* unitsUsed = max(c - p, 0) for its previousReading p; when c < p, unitsUsed
\* is 0 and the amount is the minimum price exactly.
C2_UnitsClamped ==
    Succeeded("approveReading") =>
        LET r == readings[last.id]
            c == last.corrected
            p == r.previousReading.v
        IN  /\ IsNum(r.previousReading)
            /\ r.correctedReading = Num(c)
            /\ r.unitsUsed = Num(IF c - p > 0 THEN c - p ELSE 0)
            /\ c < p => r.unitsUsed = Num(0) /\ r.amount = Num(getMinimumPrice * 100)

\* An approval of a value below the previous reading (a meter reset).
C2_Witness ==
    /\ Succeeded("approveReading")
    /\ last.corrected < readings[last.id].previousReading.v

C4_SettingsUpdatesKeepReadings ==
    [][last'.op \in {"updateGlobalTariff", "updateMinimumPrice", "updateUnitFactor"}
        => readings' = readings]_vars

\* The tariff was changed after an approval, and the approved reading keeps
\* the tariff of its approval.
C4_Witness ==
    /\ last.op = "updateGlobalTariff"
    /\ \E i \in DOMAIN readings :
        /\ readings[i].status = "approved"
        /\ readings[i].tariffAtApproval # Num(getGlobalTariff)

\* C5: while a reading stays approved, its tariffAtApproval and
\* unitFactorAtApproval do not change, whatever the step.
C5_SnapshotsFrozenWhileApproved ==
    [][\A i \in DOMAIN readings :
        (readings[i].status = "approved" /\ readings'[i].status = "approved")
        => /\ readings'[i].tariffAtApproval = readings[i].tariffAtApproval
           /\ readings'[i].unitFactorAtApproval = readings[i].unitFactorAtApproval]_vars

\* C6: a reading's status changes only from pending to approved, from pending
\* to rejected and from approved to pending, and an approved reading is not
\* approved again.
C6_OnlyLifecycleTransitions ==
    [][\A i \in DOMAIN readings :
        /\ readings'[i].status # readings[i].status
            => <<readings[i].status, readings'[i].status>> \in
                    {<<"pending", "approved">>, <<"pending", "rejected">>,
                     <<"approved", "pending">>}
        /\ (last'.op = "approveReading" /\ last'.err = "" /\ last'.id = i)
            => readings[i].status # "approved"]_vars

\* The greatest creation timestamp among the readings `ids` of `rs`.
LatestCreation(rs, ids) ==
    CHOOSE t \in {rs[i].createdAt.v : i \in ids} :
        \A i \in ids : rs[i].createdAt.v <= t

\* C7: a createReadingFromImage for a flat that has a reading of the current
\* month that is not rejected fails with 'Upload limit reached', leaves the
\* readings collection as it was, and its message names the date of the most
\* recently created of these readings.
C7_GateBlocks ==
    [][(last'.op = "createReadingFromImage" /\ Conflicting(readings, last'.flat) # {})
        => /\ last'.err = "Upload limit reached"
           /\ readings' = readings
           /\ last'.date =
                Num(LatestCreation(readings, Conflicting(readings, last'.flat))
                        \div TicksPerDay)]_vars

\* A submission was refused while the flat had two readings of the month that
\* are not rejected, created on different days; the message names the later
\* day.
C7_Witness ==
    /\ last.op = "createReadingFromImage"
    /\ last.err = "Upload limit reached"
    /\ \E i, j \in Conflicting(readings, last.flat) :
        /\ readings[i].createdAt.v \div TicksPerDay
                < readings[j].createdAt.v \div TicksPerDay
        /\ last.date = Num(readings[j].createdAt.v \div TicksPerDay)

\* C8: a createReadingFromImage for a flat whose readings of the current month
\* are all rejected succeeds: it inserts one reading, pending, of the current
\* month, created now, with correctedReading, previousReading, unitsUsed and
\* amount null, and leaves the existing readings as they were.
C8_GateAdmits ==
    [][(last'.op = "createReadingFromImage" /\ Conflicting(readings, last'.flat) = {})
        => /\ last'.err = ""
           /\ Len(readings') = Len(readings) + 1
           /\ \A i \in DOMAIN readings : readings'[i] = readings[i]
           /\ LET r == readings'[Len(readings')]
              IN  /\ r.flatId = last'.flat
                  /\ r.status = "pending"
                  /\ r.yearMonth = Num(now \div TicksPerMonth)
                  /\ r.createdAt = Num(now)
                  /\ r.correctedReading = Null
                  /\ r.previousReading = Null
                  /\ r.unitsUsed = Null
                  /\ r.amount = Null]_vars

\* A submission was accepted in a month in which the flat has a rejected
\* reading.
C8_Witness ==
    /\ Succeeded("createReadingFromImage")
    /\ \E i \in DOMAIN readings :
        /\ i # last.id
        /\ readings[i].flatId = last.flat
        /\ MonthOf(readings[i]) = MonthOf(readings[last.id])
        /\ readings[i].status = "rejected"

\* C9: right after an approveReading of a reading whose flat has other
\* approved readings, its previousReading is the corrected value (or the
\* legacy OCR value) of one of them with the greatest approval timestamp
\* (creation timestamp when it has no approval timestamp).
C9_PreviousIsLatestApproved ==
    (Succeeded("approveReading") /\ OtherApproved(last.id, last.flat) # {}) =>
        \E p \in OtherApproved(last.id, last.flat) :
            /\ \A q \in OtherApproved(last.id, last.flat) :
                    ApprovalTime(readings[q]) <= ApprovalTime(readings[p])
            /\ IsNum(ValueOf(readings[p]))
            /\ readings[last.id].previousReading = ValueOf(readings[p])

\* An approval while the flat has two other approved readings, approved at
\* different times and with different values.
C9_Witness ==
    /\ Succeeded("approveReading")
    /\ \E p, q \in OtherApproved(last.id, last.flat) :
        /\ ApprovalTime(readings[q]) < ApprovalTime(readings[p])
        /\ ValueOf(readings[q]) # ValueOf(readings[p])

\* C10: right after an approveReading of a reading whose flat has no other
\* approved reading, its previousReading is the flat's initialReading, or 0
\* when the flat has none or has no record; when the flat has another
\* approved reading, previousReading is the value of one of them.
C10_InitialReadingFallback ==
    Succeeded("approveReading") =>
        LET r == readings[last.id]
            flat == flats[last.flat]
            others == OtherApproved(last.id, last.flat)
        IN  /\ others = {} =>
                r.previousReading =
                    IF flat.exists /\ IsNum(flat.initialReading)
                    THEN flat.initialReading ELSE Num(0)
            /\ others # {} =>
                \E p \in others : r.previousReading = ValueOf(readings[p])

\* An approval of the first reading of a flat that has an initial reading.
C10_Witness ==
    /\ Succeeded("approveReading")
    /\ OtherApproved(last.id, last.flat) = {}
    /\ flats[last.flat].exists
    /\ IsNum(flats[last.flat].initialReading)
    /\ readings[last.id].previousReading = flats[last.flat].initialReading

\* The reason a call stores when it is given `reason`: null when none is given.
StoredReason(reason) == IF reason = UndefinedStr THEN NullStr ELSE reason

\* C11: a reopenReading(readingId, reason) call that succeeds leaves the
\* reading pending, with unitsUsed, amount, approvedAt and tariffAtApproval
\* null, the rejection reason null and the reopen reason equal to the given
\* reason (null when none is given); it computes nothing anew: the corrected
\* and the previous reading are those the reading had before the call.
C11_ReopenResets ==
    [][ (last'.op = "reopenReading" /\ last'.err = "") =>
            LET before == readings[last'.id]
                after == readings'[last'.id]
            IN  /\ after.status = "pending"
                /\ after.unitsUsed = Null
                /\ after.amount = Null
                /\ after.approvedAt = Null
                /\ after.tariffAtApproval = Null
                /\ after.rejectionReason = NullStr
                /\ after.reopenReason = StoredReason(last'.reason)
                /\ after.correctedReading = before.correctedReading
                /\ after.previousReading = before.previousReading ]_vars

\* An approved reading (it has a corrected reading) was reopened with a reason.
C11_Witness ==
    /\ Succeeded("reopenReading")
    /\ last.reason # UndefinedStr
    /\ IsNum(readings[last.id].correctedReading)
    /\ readings[last.id].reopenReason = last.reason

\* C12: right after a reopenReading call that succeeds, the reading's
\* previousReading, unitsUsed, amount, approvedAt, tariffAtApproval and
\* unitFactorAtApproval are all null or absent.
C12_ReopenClearsAllComputed ==
    Succeeded("reopenReading") =>
        LET r == readings[last.id]
        IN  /\ Nullish(r.previousReading)
            /\ Nullish(r.unitsUsed)
            /\ Nullish(r.amount)
            /\ Nullish(r.approvedAt)
            /\ Nullish(r.tariffAtApproval)
            /\ Nullish(r.unitFactorAtApproval)

\* Every reading but the one with id `id` is the same before and after the
\* step, and no reading is added or removed.
OtherReadingsUntouched(id) ==
    /\ DOMAIN readings' = DOMAIN readings
    /\ \A i \in DOMAIN readings : i # id => readings'[i] = readings[i]

\* C13: a reopenReading call that succeeds leaves the reading's flatId,
\* imageUrl, tenantReading, createdAt and yearMonth as they were, and leaves
\* every other reading, every flat and the global settings unchanged.
C13_ReopenKeepsSubmission ==
    [][ (last'.op = "reopenReading" /\ last'.err = "") =>
            LET before == readings[last'.id]
                after == readings'[last'.id]
            IN  /\ after.flatId = before.flatId
                /\ after.imageUrl = before.imageUrl
                /\ after.tenantReading = before.tenantReading
                /\ after.createdAt = before.createdAt
                /\ after.yearMonth = before.yearMonth
                /\ OtherReadingsUntouched(last'.id)
                /\ flats' = flats
                /\ settings' = settings ]_vars

\* A reading with a typed tenant reading was reopened while another reading,
\* a flat record and a settings document exist.
C13_Witness ==
    /\ Succeeded("reopenReading")
    /\ IsNum(readings[last.id].tenantReading)
    /\ Len(readings) >= 2
    /\ settings.exists
    /\ \E f \in FlatIds : flats[f] # NoFlat

\* C14: a rejectReading(readingId, reason) call that succeeds leaves the
\* reading rejected with rejectionReason equal to the given reason (null when
\* none is given), and leaves correctedReading, previousReading, unitsUsed,
\* amount, tariffAtApproval, unitFactorAtApproval, approvedAt and createdAt
\* as they were.
C14_RejectKeepsNumbers ==
    [][ (last'.op = "rejectReading" /\ last'.err = "") =>
            LET before == readings[last'.id]
                after == readings'[last'.id]
            IN  /\ after.status = "rejected"
                /\ after.rejectionReason = StoredReason(last'.reason)
                /\ after.correctedReading = before.correctedReading
                /\ after.previousReading = before.previousReading
                /\ after.unitsUsed = before.unitsUsed
                /\ after.amount = before.amount
                /\ after.tariffAtApproval = before.tariffAtApproval
                /\ after.unitFactorAtApproval = before.unitFactorAtApproval
                /\ after.approvedAt = before.approvedAt
                /\ after.createdAt = before.createdAt ]_vars

\* An approved reading was rejected with a reason and still carries the
\* numbers of its approval.
C14_Witness ==
    /\ Succeeded("rejectReading")
    /\ last.reason # UndefinedStr
    /\ readings[last.id].rejectionReason = last.reason
    /\ IsNum(readings[last.id].amount)
    /\ IsNum(readings[last.id].approvedAt)

\* C15: an approveReading call with an id no reading has fails with
\* 'Reading not found' and leaves every reading, every flat and the settings
\* as they were.
C15_ApproveMissingFails ==
    [][ (last'.op = "approveReading" /\ last'.id \notin DOMAIN readings) =>
            /\ last'.err = "Reading not found"
            /\ readings' = readings
            /\ flats' = flats
            /\ settings' = settings ]_vars

\* An approval of an id without a document failed while readings exist.
C15_Witness ==
    /\ last.op = "approveReading"
    /\ last.err = "Reading not found"
    /\ last.id \notin DOMAIN readings
    /\ Len(readings) >= 1

\* C16: an approveReading call that succeeds changes no setting, no flat and
\* no reading but the one approved; that reading is left approved with the
\* corrected reading given, numeric previousReading, unitsUsed and amount,
\* approvedAt equal to the time of the call, and tariffAtApproval and
\* unitFactorAtApproval equal to the tariff and the unit factor the settings
\* gave when the call was made.
C16_ApproveWritesOneReading ==
    [][ (last'.op = "approveReading" /\ last'.err = "") =>
            LET after == readings'[last'.id]
            IN  /\ settings' = settings
                /\ flats' = flats
                /\ OtherReadingsUntouched(last'.id)
                /\ after.status = "approved"
                /\ after.correctedReading = Num(last'.corrected)
                /\ IsNum(after.previousReading)
                /\ IsNum(after.unitsUsed)
                /\ IsNum(after.amount)
                /\ after.approvedAt = Num(now)
                /\ after.tariffAtApproval = Num(getGlobalTariff)
                /\ after.unitFactorAtApproval = Num(getUnitFactor) ]_vars

\* A reading was approved some time after its creation, under a configured
\* tariff and unit factor, while a reading of another flat exists.
C16_Witness ==
    /\ Succeeded("approveReading")
    /\ IsNum(settings.tariffPerUnit)
    /\ IsNum(settings.unitFactor)
    /\ readings[last.id].tariffAtApproval = settings.tariffPerUnit
    /\ readings[last.id].unitFactorAtApproval = settings.unitFactor
    /\ readings[last.id].approvedAt.v > readings[last.id].createdAt.v
    /\ \E i \in DOMAIN readings : readings[i].flatId # last.flat

\* What a getter returns for a stored field: the value when the settings
\* document exists and the field holds a number, the fallback otherwise.
StoredNumberOr(field, fallback) ==
    IF settings.exists /\ field.k = "num" THEN field.v ELSE fallback

C18_DisplayEqualsStoredAmount ==
    \A i \in DOMAIN readings :
        readings[i].status = "approved" =>
            /\ ReadingCardGrandTotal(readings[i]) = readings[i].amount.v
            /\ SummaryGrandTotal(readings[i]) = readings[i].amount.v

\* The amount of the documentation, in hundredths: units times tariff, raised
\* to the minimum price when below it.
DocumentedAmount(unitsUsed, tariffPerUnit, minimumPrice) ==
    LET amount == unitsUsed * tariffPerUnit * 10
    IN  IF amount < minimumPrice * 100 THEN minimumPrice * 100 ELSE amount

RacingPair(a, b) ==
    /\ a # b
    /\ inflight[a].pc = "done" /\ inflight[a].err = ""
    /\ inflight[b].pc = "done" /\ inflight[b].err = ""
    /\ inflight[a].id # inflight[b].id
    /\ readings[inflight[a].id].flatId = readings[inflight[b].id].flatId
    /\ inflight[a].status # "approved"
    /\ inflight[b].status # "approved"

\* C20: when two approveReading calls for two different readings of one flat
\* both read before either writes, both write: the two readings are approved
\* with the same previousReading, which is the corrected value of neither
\* call.  When one call reads after the other wrote (the two sequential
\* orders), its reading's previousReading is the other call's corrected value
\* and the two previousReadings differ: no sequential order gives the state
\* of the race.
C20_RacingApprovalsShareBaseline ==
    \A a, b \in Admins :
        RacingPair(a, b) =>
            LET ra == readings[inflight[a].id]
                rb == readings[inflight[b].id]
            IN  IF inflight[a].sawNoWrite /\ inflight[b].sawNoWrite
                THEN /\ ra.status = "approved"
                     /\ rb.status = "approved"
                     /\ ra.previousReading = rb.previousReading
                     /\ ra.previousReading # Num(inflight[b].corrected)
                     /\ rb.previousReading # Num(inflight[a].corrected)
                ELSE /\ ~inflight[a].sawNoWrite => ra.previousReading = Num(inflight[b].corrected)
                     /\ ~inflight[b].sawNoWrite => rb.previousReading = Num(inflight[a].corrected)
                     /\ ra.previousReading # rb.previousReading

\* Both admins read before either wrote, and the second and third month's
\* readings are both approved on the first month's value.
C20_Witness ==
    \E a, b \in Admins :
        /\ RacingPair(a, b)
        /\ inflight[a].sawNoWrite /\ inflight[b].sawNoWrite
        /\ inflight[a].corrected # inflight[b].corrected
        /\ readings[inflight[a].id].status = "approved"
        /\ readings[inflight[b].id].status = "approved"
        /\ readings[inflight[a].id].previousReading = readings[1].correctedReading
        /\ readings[inflight[b].id].previousReading = readings[1].correctedReading

\* C21: when two createReadingFromImage calls for one flat in one month have
\* both ended, at most one of them inserted a reading and the other failed
\* with the upload-limit error.
C21_ConcurrentUploadsLimited ==
    \A s, t \in Sessions :
        (/\ s # t
         /\ inflight[s].pc = "done" /\ inflight[t].pc = "done"
         /\ inflight[s].flat = inflight[t].flat
         /\ inflight[s].yearMonth = inflight[t].yearMonth)
        => \/ inflight[s].err = "" /\ inflight[t].err = "Upload limit reached"
           \/ inflight[t].err = "" /\ inflight[s].err = "Upload limit reached"

\* The step approves again, with the corrected value it had, the reading
\* that the step before reopened from approved; the settings are those frozen
\* at the first approval.
ReapprovalAfterReopen ==
    /\ last.op = "reopenReading" /\ last.err = ""
    /\ last.before.status = "approved"
    /\ last'.op = "approveReading" /\ last'.err = ""
    /\ last'.id = last.id
    /\ Num(last'.corrected) = last.before.correctedReading
    /\ Num(getGlobalTariff) = last.before.tariffAtApproval
    /\ Num(getUnitFactor) = last.before.unitFactorAtApproval

\* The re-approval leaves the previous reading, the units and the amount
\* that the reading had before it was reopened.
SameAsFirstApproval ==
    /\ readings'[last.id].previousReading = last.before.previousReading
    /\ readings'[last.id].unitsUsed = last.before.unitsUsed
    /\ readings'[last.id].amount = last.before.amount

OthersEverApproved(id, flatId) ==
    {i \in DOMAIN readings :
        i # id /\ readings[i].flatId = flatId /\ IsNum(readings[i].correctedReading)}

\* Every other reading of the flat that has been approved is still approved,
\* was approved before time `at`, and no two of them at the same time.
OthersAsBefore(id, flatId, at) ==
    LET others == OthersEverApproved(id, flatId)
    IN  /\ \A i \in others :
              /\ readings[i].status = "approved"
              /\ IsNum(readings[i].approvedAt)
              /\ readings[i].approvedAt.v < at
        /\ \A i, j \in others :
              i # j => readings[i].approvedAt # readings[j].approvedAt

C23_ApprovedReadingsComplete ==
    \A i \in DOMAIN readings :
        readings[i].status = "approved" =>
            LET r == readings[i]
            IN  /\ r.correctedReading.k = "num"
                /\ r.previousReading.k = "num"
                /\ r.unitsUsed.k = "num"
                /\ r.amount.k = "num"
                /\ r.approvedAt.k = "num"
                /\ r.tariffAtApproval.k = "num"
                /\ r.unitFactorAtApproval.k = "num"
                /\ r.unitsUsed.v >= 0
                /\ r.unitsUsed.v = (IF r.correctedReading.v > r.previousReading.v
                                    THEN r.correctedReading.v - r.previousReading.v ELSE 0)

\* Two readings are approved, one of them after being reopened, one with
\* units consumed and one with none.
C23_Witness ==
    \E i, j \in DOMAIN readings :
        /\ readings[i].status = "approved" /\ readings[j].status = "approved"
        /\ readings[i].reopenReason # UndefinedStr
        /\ readings[i].unitsUsed.v > 0
        /\ readings[j].unitsUsed.v = 0

\* C24: every reading with status pending has unitsUsed, amount, approvedAt
\* and tariffAtApproval null or absent.
C24_PendingReadingsBlank ==
    \A i \in DOMAIN readings :
        readings[i].status = "pending" =>
            /\ readings[i].unitsUsed.k \in {"null", "undefined"}
            /\ readings[i].amount.k \in {"null", "undefined"}
            /\ readings[i].approvedAt.k \in {"null", "undefined"}
            /\ readings[i].tariffAtApproval.k \in {"null", "undefined"}

\* A reading that was approved and then reopened is pending again, beside a
\* reading that was never approved.
C24_Witness ==
    \E i, j \in DOMAIN readings :
        /\ readings[i].status = "pending" /\ readings[j].status = "pending"
        /\ IsNum(readings[i].correctedReading)
        /\ readings[i].rejectionReason = NullStr
        /\ readings[i].reopenReason # UndefinedStr
        /\ readings[j].correctedReading = Null

\* The step is a call of the settings update `op`.
Updates(op) == last'.op = op

\* C25: each settings update writes its own field, with the value given, and
\* leaves the two other fields as they were; a field that was never written
\* reads as its default (0, 250, 2.3) whatever was written to the others;
\* and an approval uses, for each field, the value the settings hold, which
\* is the last one written.
C25_UpdatesWriteOwnField ==
    /\ [][ Updates("updateGlobalTariff") =>
            /\ settings'.tariffPerUnit = Num(last'.value)
            /\ settings'.minimumPrice = settings.minimumPrice
            /\ settings'.unitFactor = settings.unitFactor ]_vars
    /\ [][ Updates("updateMinimumPrice") =>
            /\ settings'.minimumPrice = Num(last'.value)
            /\ settings'.tariffPerUnit = settings.tariffPerUnit
            /\ settings'.unitFactor = settings.unitFactor ]_vars
    /\ [][ Updates("updateUnitFactor") =>
            /\ settings'.unitFactor = Num(last'.value)
            /\ settings'.tariffPerUnit = settings.tariffPerUnit
            /\ settings'.minimumPrice = settings.minimumPrice ]_vars
    /\ [][ /\ settings'.tariffPerUnit = Undefined => getGlobalTariff' = 0
           /\ settings'.minimumPrice = Undefined => getMinimumPrice' = 250
           /\ settings'.unitFactor = Undefined => getUnitFactor' = 23 ]_vars
    /\ [][ (last'.op = "approveReading" /\ last'.err = "") =>
            LET r == readings'[last'.id]
                tariff == IF settings.tariffPerUnit.k = "num" THEN settings.tariffPerUnit.v ELSE 0
                minimum == IF settings.minimumPrice.k = "num" THEN settings.minimumPrice.v ELSE 250
                factor == IF settings.unitFactor.k = "num" THEN settings.unitFactor.v ELSE 23
            IN  /\ r.tariffAtApproval = Num(tariff)
                /\ r.unitFactorAtApproval = Num(factor)
                /\ r.amount = Num(r.unitsUsed.v * factor * tariff + minimum * 100) ]_vars

\* A reading was approved at the tariff written last, another holds the
\* tariff written before it, and the minimum price, never written, was
\* charged at its default although other fields were written.
C25_Witness ==
    /\ Succeeded("approveReading")
    /\ settings.minimumPrice = Undefined
    /\ IsNum(settings.unitFactor)
    /\ readings[last.id].tariffAtApproval = settings.tariffPerUnit
    /\ readings[last.id].amount.v =
          readings[last.id].unitsUsed.v * settings.unitFactor.v * settings.tariffPerUnit.v
          + 250 * 100
    /\ \E i \in DOMAIN readings :
          /\ readings[i].status = "approved"
          /\ IsNum(readings[i].tariffAtApproval)
          /\ readings[i].tariffAtApproval.v > 0
          /\ readings[i].tariffAtApproval # settings.tariffPerUnit

\* The flat's readings without a stored yearMonth that were created in the
\* current month and are not rejected (a missing status is not rejected).
LegacyOfThisMonth(flatId) ==
    {i \in DOMAIN readings :
        /\ readings[i].flatId = flatId
        /\ readings[i].yearMonth.k \in {"null", "undefined"}
        /\ readings[i].createdAt.k = "num"
        /\ readings[i].createdAt.v \div TicksPerMonth = now \div TicksPerMonth
        /\ readings[i].status # "rejected"}

\* The flat's readings with the current month stored as yearMonth that are
\* not rejected, whenever they were created.
StoredOfThisMonth(flatId) ==
    {i \in DOMAIN readings :
        /\ readings[i].flatId = flatId
        /\ readings[i].yearMonth = Num(now \div TicksPerMonth)
        /\ readings[i].status # "rejected"}

\* C26: a submission for a flat is refused when the flat has a reading that
\* is not rejected (a reading without a status counts as pending) and whose
\* stored yearMonth is the current month or, when it has no yearMonth, whose
\* createdAt lies in the current month; and a submission is refused only when
\* the flat has a reading of the current month, so bucketed, that is not
\* rejected: readings of another month or of another flat never refuse it.
C26_GateBucketsLegacyReadings ==
    [][ last'.op = "createReadingFromImage" =>
            /\ (LegacyOfThisMonth(last'.flat) # {} \/ StoredOfThisMonth(last'.flat) # {})
                    => (last'.err = "Upload limit reached" /\ readings' = readings)
            /\ last'.err = "Upload limit reached"
                    => \E i \in DOMAIN readings :
                          /\ readings[i].flatId = last'.flat
                          /\ readings[i].status # "rejected"
                          /\ MonthOf(readings[i]) = now \div TicksPerMonth ]_vars

\* A submission was refused because of a legacy reading with neither a
\* yearMonth nor a status, while the other flat has a pending reading of the
\* same month, which was admitted.
C26_Witness ==
    /\ last.op = "createReadingFromImage"
    /\ last.err = "Upload limit reached"
    /\ readings[last.id].yearMonth = Undefined
    /\ readings[last.id].status = NoStatus
    /\ now > 1
    /\ \E j \in DOMAIN readings :
          /\ readings[j].flatId # last.flat
          /\ readings[j].status = "pending"
          /\ MonthOf(readings[j]) = now \div TicksPerMonth

\* C27: for every approved reading, legacy records included, the grand total
\* of ReadingCard and the grand total of the monthly summary are the same.
C27_DisplaysAgree ==
    \A i \in DOMAIN readings :
        readings[i].status = "approved" =>
            ReadingCardGrandTotal(readings[i]) = SummaryGrandTotal(readings[i])

NumberTexts == {"35", " 35 "}

Blank(text) == text \in {"", "  "}

\* C30: handleResetPassword with an empty or all-blank password sets the
\* error 'Password cannot be empty.' and does not call updateUserPassword;
\* handleSaveProfile with an empty or all-blank username sets 'Username
\* cannot be empty.' and calls neither updateUsername nor updateFlat; neither
\* changes a user or a flat.
C30_EmptyInputsRejected ==
    /\ [][ (last'.op = "handleResetPassword" /\ Blank(page.newPassword))
            => /\ page'.error = Str("Password cannot be empty.")
               /\ "updateUserPassword" \notin page'.calls
               /\ users' = users /\ flats' = flats ]_vars
    /\ [][ (last'.op = "handleSaveProfile" /\ Blank(page.newUsername))
            => /\ page'.error = Str("Username cannot be empty.")
               /\ page'.calls \cap {"updateUsername", "updateFlat"} = {}
               /\ users' = users /\ flats' = flats ]_vars

\* A password of blanks was refused for a user whose password had been
\* reset before, and the stored hash is still that of the earlier reset.
C30_Witness ==
    /\ page.component = "AdminUsersPage"
    /\ last.op = "handleResetPassword"
    /\ page.newPassword = "  "
    /\ page.error = Str("Password cannot be empty.")
    /\ page.calls = {}
    /\ users[last.flat].passwordHash = Hash(" pw ")

====
